---- MODULE Spec2Model ----
(***************************************************************************)
(* Pi-hole API: the list repository (services/lists/repository.rs).        *)
(*                                                                         *)
(* The gravity database holds three tables (whitelist, blacklist, regex).  *)
(* ListRepositoryImpl answers get / contains / add / remove by running one *)
(* statement against the table its `list` argument selects and wrapping a  *)
(* storage error into ErrorKind::GravityDatabase.                          *)
(***************************************************************************)
EXTENDS Integers, Sequences, FiniteSets, TLC

\* ------------------------------------------------------------------ bounds

\* Most rows the three tables hold together (add is not offered beyond it).
MaxRows == 3

\* ------------------------------------------------------------------- types

\* services::lists::List, the selector of the table.
List == {"White", "Black", "Regex"}

\* The domain / pattern strings callers pass in.
Domains == {"test.com", "example.com"}

\* A row of a list table: the domain column and the enabled column.
Row == [domain : Domains, enabled : BOOLEAN]

\* util::ErrorKind as far as the repository uses it.
ErrorKind == {"GravityDatabase"}

\* What the storage engine answers to one statement: it runs, or it fails
\* with a low-level error (connection lost, statement rejected, constraint).
StorageOutcome == {"Ok", "ConnectionError", "QueryError"}

\* Result<T, Error>
Ok(v) == [ok |-> TRUE, value |-> v, kind |-> "None"]

Err(k) == [ok |-> FALSE, value |-> <<>>, kind |-> k]

\* The unit value ().
Unit == <<>>

VARIABLES
    db,     \* the gravity database: one sequence of rows (rowid order) per table
    last,   \* the call that returned last: operation, arguments, storage outcome, result
    pc,     \* position of the add_test / delete_test round trip
    trip,   \* the round trip's arguments and what its get calls returned
    conc,   \* calls of concurrent request contexts: each caller's call and the order applied
    config, \* Config::parse: the config file as found and what parse returned
    version, \* parse_git_version: its arguments and what it returned
    build   \* build.rs: the environment, git's output and the variables handed to cargo

vars == <<db, last, pc, trip, conc, config, version, build>>

\* The parts of the state a specification does not use.
Unused == "unused"

\* The state outside the list repository.
outside == <<conc, config, version, build>>

\* ------------------------------------------------------- storage statements

\* Variant: the enabled filter is left out.
FilterEnabledNone(table) == table

\* .filter(enabled.eq(true))
FilterEnabled(table) == SelectSeq(table, LAMBDA r : r.enabled)

\* .filter(domain.eq(input_domain))
FilterDomain(table, input_domain) == SelectSeq(table, LAMBDA r : r.domain = input_domain)

\* Variant: the select lists every row, enabled or not.
LoadDomainsUnfiltered(table, io) ==
    IF io = "Ok"
    THEN Ok([i \in 1..Len(table) |-> table[i].domain])
    ELSE Err(io)

\* Variant: a failed load is turned into an empty answer (unwrap_or_default).
LoadDomainsPartial(table, io) ==
    IF io = "Ok"
    THEN Ok([i \in 1..Len(SelectSeq(table, LAMBDA r : r.enabled)) |->
                SelectSeq(table, LAMBDA r : r.enabled)[i].domain])
    ELSE Ok(<<>>)

\* table.select(domain).filter(enabled.eq(true)).load(db)
LoadDomains(table, io) ==
    IF io = "Ok"
    THEN Ok([i \in 1..Len(FilterEnabled(table)) |-> FilterEnabled(table)[i].domain])
    ELSE Err(io)

\* select(exists(table.filter(enabled.eq(true)).filter(domain.eq(input_domain)))).get_result(db)
SelectExists(table, input_domain, io) ==
    IF io = "Ok"
    THEN Ok(Len(FilterDomain(FilterEnabled(table), input_domain)) > 0)
    ELSE Err(io)

\* Variant: the row is inserted with enabled = false.
InsertIntoDisabled(table, input_domain, io) ==
    IF io = "Ok"
    THEN [res |-> Ok(1), table |-> Append(table, [domain |-> input_domain, enabled |-> FALSE])]
    ELSE [res |-> Err(io), table |-> table]

\* Variant: replace_into(table).values(domain.eq(input_domain)): the row
\* replaces the rows of the same domain and takes the column default for enabled.
ReplaceIntoDefault(table, input_domain, io) ==
    IF io = "Ok"
    THEN [res |-> Ok(1),
          table |-> Append(SelectSeq(table, LAMBDA r : r.domain # input_domain),
                           [domain |-> input_domain, enabled |-> FALSE])]
    ELSE [res |-> Err(io), table |-> table]

\* Variant: a rejected insert is not rolled back, the row stays.
InsertIntoNoRollback(table, input_domain, io) ==
    [res |-> IF io = "Ok" THEN Ok(1) ELSE Err(io),
     table |-> IF io = "ConnectionError"
               THEN table
               ELSE Append(table, [domain |-> input_domain, enabled |-> TRUE])]

\* insert_into(table).values(&(domain.eq(input_domain), enabled.eq(true))).execute(db)
\* A statement that fails leaves the table as it was.
InsertInto(table, input_domain, io) ==
    IF io = "Ok"
    THEN [res |-> Ok(1), table |-> Append(table, [domain |-> input_domain, enabled |-> TRUE])]
    ELSE [res |-> Err(io), table |-> table]

\* Index of the first enabled row with the domain, 0 if there is none.
FirstMatch(table, input_domain) ==
    IF \E i \in 1..Len(table) : table[i].enabled /\ table[i].domain = input_domain
    THEN CHOOSE i \in 1..Len(table) :
            /\ table[i].enabled /\ table[i].domain = input_domain
            /\ \A j \in 1..(i - 1) : ~(table[j].enabled /\ table[j].domain = input_domain)
    ELSE 0

\* Variant: the delete stops after the first matching row (LIMIT 1).
DeleteFromFirst(table, input_domain, io) ==
    IF io = "Ok"
    THEN [res |-> Ok(IF FirstMatch(table, input_domain) = 0 THEN 0 ELSE 1),
          table |-> [i \in 1..(Len(table) - (IF FirstMatch(table, input_domain) = 0 THEN 0 ELSE 1)) |->
                        IF FirstMatch(table, input_domain) = 0 \/ i < FirstMatch(table, input_domain)
                        THEN table[i] ELSE table[i + 1]]]
    ELSE [res |-> Err(io), table |-> table]

\* Variant: soft delete, the matching rows are kept with enabled = false.
DeleteFromDisable(table, input_domain, io) ==
    IF io = "Ok"
    THEN [res |-> Ok(Len(SelectSeq(table, LAMBDA r : r.enabled /\ r.domain = input_domain))),
          table |-> [i \in 1..Len(table) |->
                        IF table[i].enabled /\ table[i].domain = input_domain
                        THEN [table[i] EXCEPT !.enabled = FALSE] ELSE table[i]]]
    ELSE [res |-> Err(io), table |-> table]

\* Variant: the domain filter is left out, every enabled row is deleted.
DeleteFromAllEnabled(table, input_domain, io) ==
    IF io = "Ok"
    THEN [res |-> Ok(Len(SelectSeq(table, LAMBDA r : r.enabled))),
          table |-> SelectSeq(table, LAMBDA r : ~r.enabled)]
    ELSE [res |-> Err(io), table |-> table]

\* delete(table.filter(enabled.eq(true)).filter(domain.eq(input_domain))).execute(db)
DeleteFrom(table, input_domain, io) ==
    IF io = "Ok"
    THEN [res |-> Ok(Len(FilterDomain(FilterEnabled(table), input_domain))),
          table |-> SelectSeq(table, LAMBDA r : ~(r.enabled /\ r.domain = input_domain))]
    ELSE [res |-> Err(io), table |-> table]

\* .context(ErrorKind::GravityDatabase).map_err(Error::from): a storage error
\* becomes an Error of the given kind, a value passes through.
Context(res, kind) == IF res.ok THEN Ok(res.value) ELSE Err(kind)

\* Variant: the statement's result is dropped (let _ = ...; Ok(())).
ContextUnitSwallow(res, kind) == Ok(Unit)

\* .context(ErrorKind::GravityDatabase)?; Ok(())
ContextUnit(res, kind) == IF res.ok THEN Ok(Unit) ELSE Err(kind)

\* The usize that execute(db) hands back, which add and remove drop.
RowsAffected(res) == IF res.ok THEN res.value ELSE 0

\* ------------------------------------------------------ repository methods

\* Variant: the Black arm imports the whitelist dsl.
getCrossTable(d, list, io) ==
    Context(CASE list = "White" -> LoadDomains(d.whitelist, io)
              [] list = "Black" -> LoadDomains(d.whitelist, io)
              [] list = "Regex" -> LoadDomains(d.regex, io),
            "GravityDatabase")

\* ListRepositoryImpl::get
get(d, list, io) ==
    Context(CASE list = "White" -> LoadDomains(d.whitelist, io)
              [] list = "Black" -> LoadDomains(d.blacklist, io)
              [] list = "Regex" -> LoadDomains(d.regex, io),
            "GravityDatabase")

\* ListRepositoryImpl::contains
contains(d, list, input_domain, io) ==
    Context(CASE list = "White" -> SelectExists(d.whitelist, input_domain, io)
              [] list = "Black" -> SelectExists(d.blacklist, input_domain, io)
              [] list = "Regex" -> SelectExists(d.regex, input_domain, io),
            "GravityDatabase")

\* Variant: the Black arm imports the whitelist dsl.
addCrossTable(d, list, input_domain, io) ==
    CASE list = "White" ->
            LET s == InsertInto(d.whitelist, input_domain, io)
            IN  [result |-> ContextUnit(s.res, "GravityDatabase"),
                 rows |-> RowsAffected(s.res),
                 db |-> [d EXCEPT !.whitelist = s.table]]
      [] list = "Black" ->
            LET s == InsertInto(d.whitelist, input_domain, io)
            IN  [result |-> ContextUnit(s.res, "GravityDatabase"),
                 rows |-> RowsAffected(s.res),
                 db |-> [d EXCEPT !.whitelist = s.table]]
      [] list = "Regex" ->
            LET s == InsertInto(d.regex, input_domain, io)
            IN  [result |-> ContextUnit(s.res, "GravityDatabase"),
                 rows |-> RowsAffected(s.res),
                 db |-> [d EXCEPT !.regex = s.table]]

\* ListRepositoryImpl::add: the result and the database afterwards.
add(d, list, input_domain, io) ==
    CASE list = "White" ->
            LET s == InsertInto(d.whitelist, input_domain, io)
            IN  [result |-> ContextUnit(s.res, "GravityDatabase"),
                 rows |-> RowsAffected(s.res),
                 db |-> [d EXCEPT !.whitelist = s.table]]
      [] list = "Black" ->
            LET s == InsertInto(d.blacklist, input_domain, io)
            IN  [result |-> ContextUnit(s.res, "GravityDatabase"),
                 rows |-> RowsAffected(s.res),
                 db |-> [d EXCEPT !.blacklist = s.table]]
      [] list = "Regex" ->
            LET s == InsertInto(d.regex, input_domain, io)
            IN  [result |-> ContextUnit(s.res, "GravityDatabase"),
                 rows |-> RowsAffected(s.res),
                 db |-> [d EXCEPT !.regex = s.table]]

\* Variant: the Regex arm imports the blacklist dsl.
removeCrossTable(d, list, input_domain, io) ==
    CASE list = "White" ->
            LET s == DeleteFrom(d.whitelist, input_domain, io)
            IN  [result |-> ContextUnit(s.res, "GravityDatabase"),
                 rows |-> RowsAffected(s.res),
                 db |-> [d EXCEPT !.whitelist = s.table]]
      [] list = "Black" ->
            LET s == DeleteFrom(d.blacklist, input_domain, io)
            IN  [result |-> ContextUnit(s.res, "GravityDatabase"),
                 rows |-> RowsAffected(s.res),
                 db |-> [d EXCEPT !.blacklist = s.table]]
      [] list = "Regex" ->
            LET s == DeleteFrom(d.blacklist, input_domain, io)
            IN  [result |-> ContextUnit(s.res, "GravityDatabase"),
                 rows |-> RowsAffected(s.res),
                 db |-> [d EXCEPT !.blacklist = s.table]]

\* ListRepositoryImpl::remove: the result and the database afterwards.
remove(d, list, input_domain, io) ==
    CASE list = "White" ->
            LET s == DeleteFrom(d.whitelist, input_domain, io)
            IN  [result |-> ContextUnit(s.res, "GravityDatabase"),
                 rows |-> RowsAffected(s.res),
                 db |-> [d EXCEPT !.whitelist = s.table]]
      [] list = "Black" ->
            LET s == DeleteFrom(d.blacklist, input_domain, io)
            IN  [result |-> ContextUnit(s.res, "GravityDatabase"),
                 rows |-> RowsAffected(s.res),
                 db |-> [d EXCEPT !.blacklist = s.table]]
      [] list = "Regex" ->
            LET s == DeleteFrom(d.regex, input_domain, io)
            IN  [result |-> ContextUnit(s.res, "GravityDatabase"),
                 rows |-> RowsAffected(s.res),
                 db |-> [d EXCEPT !.regex = s.table]]

\* ------------------------------------------------------------------- state

\* The table of the schema that belongs to a list.
TableOf(d, list) ==
    CASE list = "White" -> d.whitelist
      [] list = "Black" -> d.blacklist
      [] list = "Regex" -> d.regex

TotalRows(d) == Len(d.whitelist) + Len(d.blacklist) + Len(d.regex)

\* The tables a repository is opened on: empty, or seeded with one row.
SeededTable == {<<>>} \cup {<<r>> : r \in Row}

\* The record of a call.
Call(op, list, domain, io, result, rows) ==
    [op |-> op, list |-> list, domain |-> domain, io |-> io, result |-> result, rows |-> rows]

NoCall == Call("none", "White", "test.com", "Ok", Ok(Unit), 0)

NoTrip == [list |-> "White", domain |-> "test.com", get0 |-> <<>>, get1 |-> <<>>, get2 |-> <<>>]

Init ==
    /\ db \in [whitelist : SeededTable, blacklist : SeededTable, regex : SeededTable]
    /\ last = NoCall
    /\ pc = "idle"
    /\ trip = NoTrip
    /\ conc = Unused
    /\ config = Unused
    /\ version = Unused
    /\ build = Unused

\* ----------------------------------------------------------------- actions

\* A caller runs repo.get(list).
GetCall(list, io) ==
    /\ last' = Call("get", list, "test.com", io, get(db, list, io), 0)
    /\ db' = db

\* A caller runs repo.contains(list, domain).
ContainsCall(list, domain, io) ==
    /\ last' = Call("contains", list, domain, io, contains(db, list, domain, io), 0)
    /\ db' = db

\* A caller runs repo.add(list, domain).
AddCall(list, domain, io) ==
    /\ last' = Call("add", list, domain, io, add(db, list, domain, io).result,
                    add(db, list, domain, io).rows)
    /\ db' = add(db, list, domain, io).db

\* A caller runs repo.remove(list, domain).
RemoveCall(list, domain, io) ==
    /\ last' = Call("remove", list, domain, io, remove(db, list, domain, io).result,
                    remove(db, list, domain, io).rows)
    /\ db' = remove(db, list, domain, io).db

Get == \E list \in List, io \in StorageOutcome :
    GetCall(list, io) /\ UNCHANGED <<pc, trip, outside>>

Contains == \E list \in List, domain \in Domains, io \in StorageOutcome :
    ContainsCall(list, domain, io) /\ UNCHANGED <<pc, trip, outside>>

Add == \E list \in List, domain \in Domains, io \in StorageOutcome :
    TotalRows(db) < MaxRows /\ AddCall(list, domain, io) /\ UNCHANGED <<pc, trip, outside>>

Remove == \E list \in List, domain \in Domains, io \in StorageOutcome :
    RemoveCall(list, domain, io) /\ UNCHANGED <<pc, trip, outside>>

Next == Get \/ Contains \/ Add \/ Remove

Spec == Init /\ [][Next]_vars

\* ------------------------------------------- the add_test / delete_test trip

\* unwrap() of a Result: the test goes on, or panics.
Unwrap(result, then) == IF result.ok THEN then ELSE "panicked"

\* assert!(cond): the test goes on, or fails at this assertion.
AssertThat(cond, then, failed) == IF cond THEN then ELSE failed

\* Vec::contains
VecContains(vec, x) == \E i \in 1..Len(vec) : vec[i] = x

\* add_test(list, domain) / delete_test(list, domain) are started.
TripStart ==
    /\ pc = "idle"
    /\ \E list \in List, domain \in Domains :
          trip' = [trip EXCEPT !.list = list, !.domain = domain]
    /\ pc' = "get0"
    /\ UNCHANGED <<db, last, outside>>

\* let initial_domains = repo.get(list).unwrap();
\* assert!(!initial_domains.contains(&domain.to_owned()));
TripGet0 ==
    /\ pc = "get0"
    /\ \E io \in StorageOutcome : GetCall(trip.list, io)
    /\ trip' = [trip EXCEPT !.get0 = last'.result.value]
    /\ pc' = Unwrap(last'.result,
                    AssertThat(~VecContains(last'.result.value, trip.domain),
                               "add", "not_new"))
    /\ UNCHANGED outside

\* repo.add(list, domain).unwrap();
TripAdd ==
    /\ pc = "add"
    /\ \E io \in StorageOutcome : AddCall(trip.list, trip.domain, io)
    /\ pc' = Unwrap(last'.result, "get1")
    /\ UNCHANGED <<trip, outside>>

\* let domains = repo.get(list).unwrap();
\* assert!(domains.contains(&domain.to_owned()));
TripGet1 ==
    /\ pc = "get1"
    /\ \E io \in StorageOutcome : GetCall(trip.list, io)
    /\ trip' = [trip EXCEPT !.get1 = last'.result.value]
    /\ pc' = Unwrap(last'.result,
                    AssertThat(VecContains(last'.result.value, trip.domain),
                               "remove", "not_added"))
    /\ UNCHANGED outside

\* repo.remove(list, domain).unwrap();
TripRemove ==
    /\ pc = "remove"
    /\ \E io \in StorageOutcome : RemoveCall(trip.list, trip.domain, io)
    /\ pc' = Unwrap(last'.result, "get2")
    /\ UNCHANGED <<trip, outside>>

\* let domains = repo.get(list).unwrap();
\* assert!(!domains.contains(&domain.to_owned()));
TripGet2 ==
    /\ pc = "get2"
    /\ \E io \in StorageOutcome : GetCall(trip.list, io)
    /\ trip' = [trip EXCEPT !.get2 = last'.result.value]
    /\ pc' = Unwrap(last'.result,
                    AssertThat(~VecContains(last'.result.value, trip.domain),
                               "done", "not_removed"))
    /\ UNCHANGED outside

NextTrip == TripStart \/ TripGet0 \/ TripAdd \/ TripGet1 \/ TripRemove \/ TripGet2

SpecTrip == Init /\ [][NextTrip]_vars


\* ------------------------------------------------------------- observations

\* The values that occur in a sequence.
Range(seq) == {seq[i] : i \in 1..Len(seq)}

\* How often a value occurs in a sequence.
Occurrences(seq, x) == Cardinality({i \in 1..Len(seq) : seq[i] = x})

\* The positions of the rows of a table with the given domain and flag.
RowsWith(table, domain, enabled) ==
    {i \in 1..Len(table) : table[i].domain = domain /\ table[i].enabled = enabled}

\* The rows of a table with enabled = false, in table order.
DisabledRows(table) == SelectSeq(table, LAMBDA r : r.enabled = FALSE)

\* What get / contains answer when the storage statement runs.
GetValues(d, list) == get(d, list, "Ok").value

ContainsTrue(d, list, domain) == contains(d, list, domain, "Ok") = Ok(TRUE)

\* The step just taken was the given operation on (list, domain) returning Ok.
Succeeded(call, op, list, domain) ==
    call.op = op /\ call.list = list /\ call.domain = domain /\ call.result.ok

\* -------------------------------------------------------------------- C1

\* C1: once add(L, v) has returned success, contains(L, v) is true, and it
\* stays true over every later call on any list and value except a remove(L, v)
\* that returns success; a contains(L, v) call that returns a value in that
\* time returns true.
AddThenContains ==
    [][/\ (last'.op = "add" /\ last'.result.ok)
             => ContainsTrue(db', last'.list, last'.domain)
       /\ db' # db
             => \A list \in List, domain \in Domains :
                   (ContainsTrue(db, list, domain) /\ ~Succeeded(last', "remove", list, domain))
                      => ContainsTrue(db', list, domain)
       /\ (last'.op = "contains" /\ last'.result.ok
              /\ RowsWith(TableOf(db, last'.list), last'.domain, TRUE) # {})
             => last'.result.value = TRUE
      ]_vars

\* An add has returned success on a table that holds other rows as well.
AddThenContainsWitness ==
    /\ last.op = "add" /\ last.result.ok
    /\ ContainsTrue(db, last.list, last.domain)
    /\ Len(TableOf(db, last.list)) >= 2
    /\ \E i \in 1..Len(TableOf(db, last.list)) : TableOf(db, last.list)[i].domain # last.domain

\* -------------------------------------------------------------------- C2

\* C2: in every reachable state and for every list, the values in the sequence
\* get returns are exactly the values for which contains returns true; a get
\* that has just returned Ok returned such a sequence.
GetCompleteness ==
    /\ \A list \in List :
          Range(GetValues(db, list)) = {v \in Domains : ContainsTrue(db, list, v)}
    /\ (last.op = "get" /\ last.result.ok)
          => Range(last.result.value) = {v \in Domains : ContainsTrue(db, last.list, v)}

\* A get returned a value of a table that also holds a disabled row of another value.
GetCompletenessWitness ==
    /\ last.op = "get" /\ last.result.ok
    /\ Len(last.result.value) >= 1
    /\ \E v \in Domains :
          /\ RowsWith(TableOf(db, last.list), v, FALSE) # {}
          /\ v \notin Range(last.result.value)

\* -------------------------------------------------------------------- C3

\* C3: add(L, v) and remove(L, v) leave the table of every other list M
\* unchanged: get(M) and contains(M, w) for every w answer the same after
\* the call as before it.
TableIsolation ==
    [][\A list \in List :
        (last'.op \in {"add", "remove"} /\ last'.list = list)
           => /\ \A other \in List \ {list} :
                    /\ GetValues(db', other) = GetValues(db, other)
                    /\ \A w \in Domains :
                          contains(db', other, w, "Ok") = contains(db, other, w, "Ok")
              /\ list = "White" => db'.blacklist = db.blacklist /\ db'.regex = db.regex
              /\ list = "Black" => db'.whitelist = db.whitelist /\ db'.regex = db.regex
              /\ list = "Regex" => db'.whitelist = db.whitelist /\ db'.blacklist = db.blacklist
      ]_vars

\* add(Black, x) has returned success while the other two tables do not hold x enabled.
TableIsolationWitness ==
    /\ last.op = "add" /\ last.list = "Black" /\ last.result.ok
    /\ ContainsTrue(db, "Black", last.domain)
    /\ ~ContainsTrue(db, "White", last.domain)
    /\ ~ContainsTrue(db, "Regex", last.domain)
    /\ Len(db.whitelist) >= 1 /\ Len(db.regex) >= 1

\* -------------------------------------------------------------------- C4

\* C4: after a remove(L, v) that returned success, from whatever rows the
\* table held, contains(L, v) is false; a second remove(L, v) returns success
\* as well, changes no stored row and leaves contains(L, v) false. A remove
\* whose statement runs returns success also when v was absent.
IdempotentRemoval ==
    /\ (last.op = "remove" /\ last.result.ok)
          => /\ contains(db, last.list, last.domain, "Ok") = Ok(FALSE)
             /\ remove(db, last.list, last.domain, "Ok").result = Ok(Unit)
             /\ remove(db, last.list, last.domain, "Ok").db = db
    /\ \A list \in List, domain \in Domains :
          /\ remove(db, list, domain, "Ok").result = Ok(Unit)
          /\ contains(remove(db, list, domain, "Ok").db, list, domain, "Ok") = Ok(FALSE)
          /\ remove(remove(db, list, domain, "Ok").db, list, domain, "Ok")
                = [result |-> Ok(Unit), rows |-> 0, db |-> remove(db, list, domain, "Ok").db]

\* A remove returned success after deleting several rows of the value, and
\* the table still holds a row of another value.
IdempotentRemovalWitness ==
    /\ last.op = "remove" /\ last.result.ok /\ last.rows >= 2
    /\ ~ContainsTrue(db, last.list, last.domain)
    /\ Len(TableOf(db, last.list)) >= 1

\* -------------------------------------------------------------------- C5

\* C5: rows with enabled = false are invisible to reads: get returns one
\* value per enabled row and nothing else, contains is true only if an
\* enabled row holds the value, and a table that holds v only in disabled
\* rows answers contains(L, v) = false and does not list v.
DisabledInvisible ==
    /\ \A list \in List, v \in Domains :
          /\ Occurrences(GetValues(db, list), v)
                = Cardinality(RowsWith(TableOf(db, list), v, TRUE))
          /\ ContainsTrue(db, list, v) => RowsWith(TableOf(db, list), v, TRUE) # {}
          /\ RowsWith(TableOf(db, list), v, TRUE) = {}
                => contains(db, list, v, "Ok") = Ok(FALSE)
    /\ (last.op = "get" /\ last.result.ok)
          => \A v \in Range(last.result.value) :
                RowsWith(TableOf(db, last.list), v, TRUE) # {}
    /\ (last.op = "contains" /\ last.result.ok /\ last.result.value = TRUE)
          => RowsWith(TableOf(db, last.list), last.domain, TRUE) # {}

\* contains(L, v) returned false on a table that holds v in a disabled row.
DisabledInvisibleWitness ==
    /\ last.op = "contains" /\ last.result = Ok(FALSE)
    /\ RowsWith(TableOf(db, last.list), last.domain, FALSE) # {}

\* -------------------------------------------------------------------- C6

\* C6: no call changes the enabled flag of a row or touches a disabled row:
\* the disabled rows of every table are the same after every call, get and
\* contains change nothing, a successful add appends one row with enabled =
\* true, and remove deletes the enabled rows with the given value and no other.
EnabledFlagFrame ==
    [][/\ db' # db
             => \A list \in List :
                   /\ DisabledRows(TableOf(db', list)) = DisabledRows(TableOf(db, list))
                   /\ Len(TableOf(db', list)) >= Len(TableOf(db, list))
                         => \A i \in 1..Len(TableOf(db, list)) :
                               TableOf(db', list)[i] = TableOf(db, list)[i]
       /\ last'.op \in {"get", "contains"} => db' = db
       /\ (last'.op = "add" /\ last'.result.ok)
             => TableOf(db', last'.list)
                   = TableOf(db, last'.list) \o <<[domain |-> last'.domain, enabled |-> TRUE]>>
       /\ (last'.op = "add" /\ ~last'.result.ok) => db' = db
       /\ last'.op = "remove"
             => \A v \in Domains :
                   /\ Cardinality(RowsWith(TableOf(db', last'.list), v, FALSE))
                         = Cardinality(RowsWith(TableOf(db, last'.list), v, FALSE))
                   /\ Cardinality(RowsWith(TableOf(db', last'.list), v, TRUE))
                         = IF v = last'.domain /\ last'.result.ok
                           THEN 0
                           ELSE Cardinality(RowsWith(TableOf(db, last'.list), v, TRUE))
      ]_vars

\* A remove returned success and the table still holds a disabled row of the value.
EnabledFlagFrameWitness ==
    /\ last.op = "remove" /\ last.result.ok
    /\ RowsWith(TableOf(db, last.list), last.domain, FALSE) # {}
    /\ RowsWith(TableOf(db, last.list), last.domain, TRUE) = {}

\* -------------------------------------------------------------------- C7

\* C7: add(L, v) when contains(L, v) is already true leaves contains(L, v)
\* true, and the set of values of get(L) and the answer of contains(L, w)
\* for every w are the same as before the call.
AddPresentIdempotent ==
    [][(last'.op = "add" /\ ContainsTrue(db, last'.list, last'.domain))
          => /\ ContainsTrue(db', last'.list, last'.domain)
             /\ Range(GetValues(db', last'.list)) = Range(GetValues(db, last'.list))
             /\ \A w \in Domains :
                   contains(db', last'.list, w, "Ok") = contains(db, last'.list, w, "Ok")
      ]_vars

\* An add of a present value returned success: the value is in two enabled
\* rows, next to an enabled row of another value.
AddPresentIdempotentWitness ==
    /\ last.op = "add" /\ last.result.ok
    /\ Cardinality(RowsWith(TableOf(db, last.list), last.domain, TRUE)) >= 2
    /\ \E w \in Domains \ {last.domain} : RowsWith(TableOf(db, last.list), w, TRUE) # {}

\* -------------------------------------------------------------------- C8

\* C8: round trip, for v not in get(L): add(L, v); get(L); remove(L, v);
\* get(L) fails at no step whose storage statement runs, the first get
\* contains v and the second get does not.
RoundTrip ==
    /\ pc \notin {"not_added", "not_removed"}
    /\ pc = "not_new" => trip.domain \in Range(trip.get0)
    /\ pc = "panicked" => last.io # "Ok"
    /\ pc \in {"add", "get1", "remove", "get2", "done"} => trip.domain \notin Range(trip.get0)
    /\ pc \in {"remove", "get2", "done"} => trip.domain \in Range(trip.get1)
    /\ pc = "done" => trip.domain \notin Range(trip.get2)
    /\ pc = "get1" => (last.op = "add" /\ last.result = Ok(Unit))
    /\ pc = "get2" => (last.op = "remove" /\ last.result = Ok(Unit))

\* The trip ran to its end on a table that holds the value in a disabled row,
\* next to seeded tables of the other lists.
RoundTripWitness ==
    /\ pc = "done"
    /\ trip.domain \in Range(trip.get1)
    /\ trip.get2 = <<>>
    /\ RowsWith(TableOf(db, trip.list), trip.domain, FALSE) # {}
    /\ \A other \in List \ {trip.list} : ContainsTrue(db, other, trip.domain)

\* -------------------------------------------------------------------- C9

\* C9: whenever the storage statement of get, contains, add or remove fails,
\* the method returns an error, never Ok, and the error is of the kind
\* GravityDatabase.
FailureNeverSuccess ==
    (last.op \in {"get", "contains", "add", "remove"} /\ last.io # "Ok")
       => /\ ~last.result.ok
          /\ last.result.kind = "GravityDatabase"
          /\ last.result.kind \in ErrorKind

\* An add whose insert was rejected returned the GravityDatabase error.
FailureNeverSuccessWitness ==
    /\ last.op = "add" /\ last.io = "QueryError"
    /\ last.result = Err("GravityDatabase")

\* -------------------------------------------------------------------- C10

\* C10: get is never partial: a get that returns Ok returns every enabled
\* row of the table, one value per row; when the statement fails it returns
\* an error and no sequence.
GetNeverPartial ==
    last.op = "get"
       => IF last.result.ok
          THEN /\ last.io = "Ok"
               /\ \A v \in Domains :
                     Occurrences(last.result.value, v)
                        >= Cardinality(RowsWith(TableOf(db, last.list), v, TRUE))
               /\ Len(last.result.value) = Len(SelectSeq(TableOf(db, last.list), LAMBDA r : r.enabled))
          ELSE last.io # "Ok" /\ last.result.value = <<>>

\* A get failed on a table that holds enabled rows.
GetNeverPartialWitness ==
    /\ last.op = "get" /\ ~last.result.ok
    /\ \E v \in Domains : Cardinality(RowsWith(TableOf(db, last.list), v, TRUE)) >= 2


\* ------------------------------------------------- concurrent request contexts

\* The request contexts that call the repository at the same time.
Callers == {"c1", "c2"}

\* A call of a request context. seen is the database as it was when the call
\* began; the statement of the call does not use it.
ConcCallOf(phase, op, list, domain, io, result, seen) ==
    [phase |-> phase, op |-> op, list |-> list, domain |-> domain, io |-> io,
     result |-> result, seen |-> seen]

\* Variant: the call computes the new table from what it saw when it began
\* and writes that back (read, modify, write in the method).
ApplyToSnapshot(d, seen, op, list, input_domain, io) ==
    IF op = "add"
    THEN add(seen, list, input_domain, io)
    ELSE remove(seen, list, input_domain, io)

\* The one statement of add / remove, executed by the storage engine on the
\* database as it is when the statement runs.
Apply(d, seen, op, list, input_domain, io) ==
    IF op = "add"
    THEN add(d, list, input_domain, io)
    ELSE remove(d, list, input_domain, io)

InitConc ==
    /\ db \in [whitelist : SeededTable, blacklist : SeededTable, regex : SeededTable]
    /\ last = NoCall
    /\ pc = "idle"
    /\ trip = NoTrip
    /\ conc = [db0 |-> db,
               call |-> [c \in Callers |->
                           ConcCallOf("idle", "none", "White", "test.com", "Ok", Ok(Unit), db)],
               order |-> <<>>]
    /\ config = Unused
    /\ version = Unused
    /\ build = Unused

\* A request context enters add or remove.
ConcCall(c) ==
    /\ conc.call[c].phase = "idle"
    /\ \E op \in {"add", "remove"}, list \in List, domain \in Domains :
          conc' = [conc EXCEPT !.call[c] =
                      ConcCallOf("called", op, list, domain, "Ok", Ok(Unit), db)]
    /\ UNCHANGED <<db, last, pc, trip, config, version, build>>

\* The statement of a pending call is executed and the call returns.
ConcExecute(c) ==
    /\ conc.call[c].phase = "called"
    /\ \E io \in StorageOutcome :
          LET call == conc.call[c]
              done == Apply(db, call.seen, call.op, call.list, call.domain, io)
          IN  /\ db' = done.db
              /\ conc' = [conc EXCEPT
                            !.call[c] = ConcCallOf("done", call.op, call.list, call.domain,
                                                   io, done.result, call.seen),
                            !.order = Append(conc.order, c)]
    /\ UNCHANGED <<last, pc, trip, config, version, build>>

CallEnters == \E c \in Callers : ConcCall(c)

StatementRuns == \E c \in Callers : ConcExecute(c)

NextConc == CallEnters \/ StatementRuns

SpecConc == InitConc /\ [][NextConc]_vars

\* The orders in which a set of callers can be served one after the other.
Orders(S) == {o \in UNION {[1..n -> S] : n \in {Cardinality(S)}} :
                 \A i, j \in 1..Len(o) : i # j => o[i] # o[j]}

\* The call of caller c made on database d with nothing else running.
Alone(d, c) ==
    IF conc.call[c].op = "add"
    THEN add(d, conc.call[c].list, conc.call[c].domain, conc.call[c].io)
    ELSE remove(d, conc.call[c].list, conc.call[c].domain, conc.call[c].io)

\* The database after the calls of the callers in o, made one after the other.
RECURSIVE OneByOne(_, _)
OneByOne(d, o) == IF o = <<>> THEN d ELSE OneByOne(Alone(d, Head(o)).db, Tail(o))

\* Every call of o returned what it returns when the calls are made one
\* after the other in this order.
RECURSIVE SameResults(_, _)
SameResults(d, o) ==
    \/ o = <<>>
    \/ /\ conc.call[Head(o)].result = Alone(d, Head(o)).result
       /\ SameResults(Alone(d, Head(o)).db, Tail(o))

\* The callers whose call has returned.
Returned == {c \in Callers : conc.call[c].phase = "done"}

\* -------------------------------------------------------------------- C11

\* C11: under every interleaving of concurrent add and remove calls, the
\* tables and the results returned are those of the same calls made one after
\* the other in some order, and every stored row is a whole row.
CallsAtomic ==
    /\ \E o \in Orders(Returned) :
          /\ OneByOne(conc.db0, o) = db
          /\ SameResults(conc.db0, o)
    /\ \A list \in List : \A i \in 1..Len(TableOf(db, list)) : TableOf(db, list)[i] \in Row

\* Both callers entered add of the same value on the same list before either
\* statement ran, and both returned success.
CallsAtomicWitness ==
    /\ Returned = Callers
    /\ \A c \in Callers : conc.call[c].op = "add" /\ conc.call[c].result.ok
    /\ \A c \in Callers : conc.call[c].seen = conc.db0
    /\ conc.call["c1"].list = conc.call["c2"].list
    /\ conc.call["c1"].domain = conc.call["c2"].domain
    /\ Len(TableOf(db, conc.call["c1"].list)) = Len(TableOf(conc.db0, conc.call["c1"].list)) + 2

\* -------------------------------------------------------------------- C12

\* C12: when an add(L, v) and a remove(L, v) of different callers ran
\* concurrently and both returned success, contains(L, v) is afterwards true
\* if and only if the add was applied last.
LastWriteWins ==
    \A a \in Callers, r \in Callers :
        (/\ a # r
         /\ Returned = Callers
         /\ conc.call[a].op = "add" /\ conc.call[a].result.ok
         /\ conc.call[r].op = "remove" /\ conc.call[r].result.ok
         /\ conc.call[a].list = conc.call[r].list
         /\ conc.call[a].domain = conc.call[r].domain)
        => /\ conc.order[Len(conc.order)] = a
                <=> contains(db, conc.call[a].list, conc.call[a].domain, "Ok") = Ok(TRUE)
           /\ conc.order[Len(conc.order)] = r
                <=> contains(db, conc.call[a].list, conc.call[a].domain, "Ok") = Ok(FALSE)

\* The remove was applied last on a table that held the value from the start,
\* both calls having entered before either statement ran.
LastWriteWinsWitness ==
    /\ Returned = Callers
    /\ conc.call["c1"].op = "add" /\ conc.call["c1"].result.ok
    /\ conc.call["c2"].op = "remove" /\ conc.call["c2"].result.ok
    /\ conc.call["c1"].list = conc.call["c2"].list
    /\ conc.call["c1"].domain = conc.call["c2"].domain
    /\ conc.call["c1"].seen = conc.db0 /\ conc.call["c2"].seen = conc.db0
    /\ ContainsTrue(conc.db0, conc.call["c1"].list, conc.call["c1"].domain)
    /\ conc.order = <<"c1", "c2">>
    /\ ~ContainsTrue(db, conc.call["c1"].list, conc.call["c1"].domain)


\* ------------------------------------------------------ the test database

\* The value each list of the test database is seeded with.
Seed(list) ==
    CASE list = "White" -> "test.com"
      [] list = "Black" -> "example.com"
      [] list = "Regex" -> "(^|\\.)example\\.com$"

\* A table of the test database: its one enabled row, and possibly a
\* disabled row of any seeded value before or after it.
TestTable(list) ==
    LET seeded == [domain |-> Seed(list), enabled |-> TRUE]
        off == {[domain |-> Seed(l), enabled |-> FALSE] : l \in List}
    IN  {<<seeded>>} \cup {<<r, seeded>> : r \in off} \cup {<<seeded, r>> : r \in off}

InitSeeded ==
    /\ db \in [whitelist : TestTable("White"), blacklist : TestTable("Black"),
               regex : TestTable("Regex")]
    /\ last = NoCall
    /\ pc = "idle"
    /\ trip = NoTrip
    /\ conc = Unused
    /\ config = Unused
    /\ version = Unused
    /\ build = Unused

\* get_test(list, vec![seed]): let actual_domains = repo.get(list).unwrap();
\* assert_eq!(actual_domains, expected_domains);
GetTest ==
    /\ \E list \in List, io \in StorageOutcome :
          /\ GetCall(list, io)
          /\ pc' = Unwrap(last'.result,
                          AssertThat(last'.result.value = <<Seed(list)>>, "passed", "get_differs"))
    /\ UNCHANGED <<trip, outside>>

\* contains_test(list, seed): assert!(repo.contains(list, domain).unwrap())
ContainsTest ==
    /\ \E list \in List, io \in StorageOutcome :
          /\ ContainsCall(list, Seed(list), io)
          /\ pc' = Unwrap(last'.result,
                          AssertThat(last'.result.value = TRUE, "passed", "not_contained"))
    /\ UNCHANGED <<trip, outside>>

NextSeeded == GetTest \/ ContainsTest

SpecSeeded == InitSeeded /\ [][NextSeeded]_vars

\* -------------------------------------------------------------------- C13

\* C13: with one enabled row in each table (White: test.com, Black:
\* example.com, Regex: the example.com pattern), a get that returns a value
\* returns the sequence of exactly the list's own seeded value, with nothing
\* of the other two lists, and contains returns true for the list's own value.
SeededLists ==
    /\ pc \notin {"get_differs", "not_contained"}
    /\ pc = "panicked" => last.io # "Ok"
    /\ (last.op = "get" /\ last.result.ok)
          => /\ Len(last.result.value) = 1
             /\ last.result.value[1] = Seed(last.list)
             /\ \A other \in List \ {last.list} : Seed(other) \notin Range(last.result.value)
    /\ (last.op = "contains" /\ last.result.ok) => last.result.value = TRUE

\* get(Black) returned its seeded value from a table that also holds a
\* disabled row of the White value.
SeededListsWitness ==
    /\ pc = "passed"
    /\ last.op = "get" /\ last.list = "Black" /\ last.result = Ok(<<"example.com">>)
    /\ RowsWith(db.blacklist, "test.com", FALSE) # {}


\* -------------------------------------------------------------------- C14

\* C14: get is deterministic for a given storage state: over every call
\* that is not a successful add or remove on L, the sequence get(L) returns
\* stays the same, element for element, and a get that returns a value
\* returns that sequence.
GetDeterministic ==
    [][/\ db' # db
             => \A list \in List :
                   ~(last'.op \in {"add", "remove"} /\ last'.list = list /\ last'.result.ok)
                      => get(db', list, "Ok") = get(db, list, "Ok")
       /\ (last'.op = "get" /\ last'.result.ok)
             => /\ last'.result = get(db', last'.list, "Ok")
                /\ (last.op = "get" /\ last.result.ok /\ last.list = last'.list)
                      => last'.result.value = last.result.value
      ]_vars

\* A remove on another list returned success, after which get of a list
\* with two values is as before.
GetDeterministicWitness ==
    /\ last.op = "remove" /\ last.result.ok /\ last.rows >= 1
    /\ \E list \in List \ {last.list} : Len(GetValues(db, list)) >= 2

\* -------------------------------------------------------------------- C15

\* C15: entries are created only by add: get and contains leave every table
\* as it is, whether they succeed or fail, and the enabled rows of a value in
\* a list's table grow in number only by a successful add of that value on
\* that list, by one row.
CreatedOnlyByAdd ==
    [][/\ last'.op \in {"get", "contains"} => db' = db
       /\ db' # db
             => \A list \in List, v \in Domains :
                   Cardinality(RowsWith(TableOf(db', list), v, TRUE))
                         > Cardinality(RowsWith(TableOf(db, list), v, TRUE))
                      => /\ Succeeded(last', "add", list, v)
                         /\ Cardinality(RowsWith(TableOf(db', list), v, TRUE))
                               = Cardinality(RowsWith(TableOf(db, list), v, TRUE)) + 1
       /\ (last'.op = "add" /\ ~last'.result.ok) => db' = db
      ]_vars

\* An add failed on a table that holds rows: nothing was created.
CreatedOnlyByAddWitness ==
    /\ last.op = "add" /\ ~last.result.ok
    /\ Len(TableOf(db, last.list)) >= 1
    /\ RowsWith(TableOf(db, last.list), last.domain, TRUE) = {}

\* -------------------------------------------------------------------- C18

MaxCustomFiles == 1

\* The fields of the file_locations section.
PiholeFiles == {"dnsmasq_config", "whitelist", "blacklist", "regexlist",
                "setup_vars", "ftl_config", "local_versions", "local_branches"}

\* An address string, as the text between its dots: numeric is false when a
\* part is not a decimal number.
Address(numeric, parts) == [numeric |-> numeric, parts |-> parts]

\* Ipv4Addr::from_str(address).is_ok(): four decimal parts of at most 255.
IsIpv4(address) ==
    /\ address.numeric
    /\ Len(address.parts) = 4
    /\ \A i \in 1..4 : address.parts[i] \in 0..255

\* Path::new(file).is_absolute(): the path starts at the root. A path is the
\* sequence of its components, "/" for the root.
IsAbsolute(path) == Len(path) > 0 /\ path[1] = "/"

\* PiholeFile::default_location
DefaultLocation(file) == <<"/", "etc", "pihole", file>>

default_address == Address(TRUE, <<0, 0, 0, 0>>)

default_port == 80

default_log_level == "critical"

\* impl Default for General
GeneralDefault ==
    [address |-> default_address, port |-> default_port, log_level |-> default_log_level]

\* impl Default for Files
FilesDefault == [file \in PiholeFiles |-> DefaultLocation(file)]

\* Config::default
ConfigDefault == [general |-> GeneralDefault, file_locations |-> FilesDefault]

\* Variant: the log level is not checked.
GeneralIsValidNoLogLevel(general) ==
    IsIpv4(general.address) /\ general.port <= 65535

\* General::is_valid
GeneralIsValid(general) ==
    /\ IsIpv4(general.address)
    /\ general.port <= 65535
    /\ general.log_level \in {"debug", "normal", "critical"}

\* Files::is_valid
FilesIsValid(files) == \A file \in PiholeFiles : IsAbsolute(files[file])

\* Config::is_valid
ConfigIsValid(c) == GeneralIsValid(c.general) /\ FilesIsValid(c.file_locations)

\* A field of a config file: <<>> when the file does not set it, <<x>> when
\* it sets it to x; serde takes the default for a field that is not set.
OrDefault(field, default) == IF field = <<>> THEN default ELSE field[1]

\* toml::from_str::<Config>(&buffer)
FromToml(content) ==
    IF content.malformed
    THEN Err("TomlError")
    ELSE Ok([general |->
                [address |-> OrDefault(content.address, default_address),
                 port |-> OrDefault(content.port, default_port),
                 log_level |-> OrDefault(content.log_level, default_log_level)],
             file_locations |->
                [file \in PiholeFiles |->
                    OrDefault(content.files[file], DefaultLocation(file))]])

\* ErrorKind::FileRead(config_location.to_owned())
FileRead(config_location) == <<"FileRead", config_location>>

\* Variant: every failure to open the file yields the default config.
parseOpenErrorDefault(config_location, file) ==
    IF file.state \in {"missing", "denied"}
    THEN Ok(ConfigDefault)
    ELSE IF file.state = "unreadable"
    THEN Err(FileRead(config_location))
    ELSE IF ~FromToml(file.content).ok
    THEN Err("ConfigParsingError")
    ELSE IF ConfigIsValid(FromToml(file.content).value)
    THEN Ok(FromToml(file.content).value)
    ELSE Err("ConfigParsingError")

\* Config::parse
parse(config_location, file) ==
    IF file.state = "missing"
    THEN Ok(ConfigDefault)
    ELSE IF file.state = "denied"
    THEN Err(FileRead(config_location))
    ELSE IF file.state = "unreadable"
    THEN Err(FileRead(config_location))
    ELSE IF ~FromToml(file.content).ok
    THEN Err("ConfigParsingError")
    ELSE IF ConfigIsValid(FromToml(file.content).value)
    THEN Ok(FromToml(file.content).value)
    ELSE Err("ConfigParsingError")

\* Config::log_level: the arm of the match that is taken.
log_level(c) ==
    CASE c.general.log_level = "critical" -> [arm |-> "critical", level |-> "Critical"]
      [] c.general.log_level = "normal" -> [arm |-> "normal", level |-> "Normal"]
      [] c.general.log_level = "debug" -> [arm |-> "debug", level |-> "Debug"]
      [] OTHER -> [arm |-> "fallback", level |-> "Critical"]

\* The addresses, ports, log levels and paths config files are written with.
Addresses == {Address(TRUE, <<0, 0, 0, 0>>), Address(TRUE, <<192, 168, 1, 256>>),
              Address(TRUE, <<10, 0, 1>>), Address(FALSE, <<>>)}

Ports == {80, 65535, 65536}

LogLevels == {"critical", "normal", "debug", "hello_world"}

Paths == {<<"/", "custom">>, <<"!asd?f">>}

\* <<>> or <<x>> for x in S.
Optional(S) == {<<>>} \cup {<<x>> : x \in S}

\* What a config file can hold.
Contents ==
    {[malformed |-> TRUE, address |-> <<>>, port |-> <<>>, log_level |-> <<>>,
      files |-> [file \in PiholeFiles |-> <<>>]]}
    \cup
    {c \in [malformed : {FALSE}, address : Optional(Addresses), port : Optional(Ports),
            log_level : Optional(LogLevels), files : [PiholeFiles -> Optional(Paths)]] :
        Cardinality({file \in PiholeFiles : c.files[file] # <<>>}) <= MaxCustomFiles}

ConfigLocation == "/etc/pihole/API.toml"

InitConfig ==
    /\ db = [whitelist |-> <<>>, blacklist |-> <<>>, regex |-> <<>>]
    /\ last = NoCall
    /\ pc = "idle"
    /\ trip = NoTrip
    /\ conc = Unused
    /\ \E state \in {"missing", "denied", "unreadable", "readable"}, content \in Contents :
          config = [file |-> [state |-> state, content |-> content],
                    phase |-> "start", result |-> Ok(Unit), arm |-> "none"]
    /\ version = Unused
    /\ build = Unused

\* Config::parse(config_location) is called.
ConfigParse ==
    /\ config.phase = "start"
    /\ config' = [config EXCEPT !.phase = "parsed",
                                !.result = parse(ConfigLocation, config.file)]
    /\ UNCHANGED <<db, last, pc, trip, conc, version, build>>

\* log_level() is called on the config that parse returned.
ConfigLogLevel ==
    /\ config.phase = "parsed"
    /\ config.result.ok
    /\ config' = [config EXCEPT !.phase = "used", !.arm = log_level(config.result.value).arm]
    /\ UNCHANGED <<db, last, pc, trip, conc, version, build>>

NextConfig == ConfigParse \/ ConfigLogLevel

SpecConfig == InitConfig /\ [][NextConfig]_vars

\* -------------------------------------------------------------------- C16

\* C16: Config::parse returns the default config when the file does not
\* exist and substitutes it in no other case: every other failure to open or
\* read the file returns a FileRead error, a file that fails TOML parsing or
\* validation returns a ConfigParsingError, and none of these returns Ok.
ParseFailures ==
    config.phase # "start"
       => /\ config.file.state = "missing" => config.result = Ok(ConfigDefault)
          /\ config.file.state \in {"denied", "unreadable"}
                => /\ ~config.result.ok
                   /\ config.result.kind = <<"FileRead", ConfigLocation>>
          /\ (config.file.state = "readable" /\ config.file.content.malformed)
                => /\ ~config.result.ok
                   /\ config.result.kind = "ConfigParsingError"
          /\ (config.file.state = "readable" /\ ~config.file.content.malformed
                /\ ~ConfigIsValid(FromToml(config.file.content).value))
                => /\ ~config.result.ok
                   /\ config.result.kind = "ConfigParsingError"
          /\ (config.result.ok /\ config.file.state # "missing")
                => /\ config.file.state = "readable"
                   /\ ~config.file.content.malformed
                   /\ config.result.value = FromToml(config.file.content).value

\* The file exists but cannot be opened, and parse returned the FileRead error.
ParseFailuresWitness ==
    /\ config.phase = "parsed"
    /\ config.file.state = "denied"
    /\ config.result = Err(<<"FileRead", ConfigLocation>>)

\* -------------------------------------------------------------------- C19

\* C19: every Config that parse returns as Ok, for a missing file as for a
\* parsed one, is valid: its log level is critical, normal or debug, its port
\* is at most 65535, its address is an IPv4 address and all its file
\* locations are absolute; log_level() on it never takes the fallback arm.
ParsedConfigValid ==
    (config.phase # "start" /\ config.result.ok)
       => LET c == config.result.value
          IN  /\ c.general.log_level \in {"critical", "normal", "debug"}
              /\ c.general.port <= 65535
              /\ c.general.address.numeric
              /\ Len(c.general.address.parts) = 4
              /\ \A i \in 1..Len(c.general.address.parts) :
                    c.general.address.parts[i] >= 0 /\ c.general.address.parts[i] <= 255
              /\ \A file \in PiholeFiles : c.file_locations[file][1] = "/"
              /\ config.arm # "fallback"

\* log_level() took the debug arm on a config parsed from a file that sets
\* the log level, the largest port and a file location.
ParsedConfigValidWitness ==
    /\ config.phase = "used"
    /\ config.file.state = "readable"
    /\ config.arm = "debug"
    /\ config.result.value.general.port = 65535
    /\ \E file \in PiholeFiles : config.result.value.file_locations[file] = <<"/", "custom">>


\* --------------------------------------------------- parse_git_version

\* Most characters of a version string.
MaxLen == 6

\* The characters version strings are written with here: the separator, the
\* digit 0, a letter, and a character that takes two bytes in UTF-8.
Chars == {"-", "0", "g", "U+00E9"}

\* The bytes a character takes in a str.
Width(c) == IF c = "U+00E9" THEN 2 ELSE 1

\* A str is the sequence of its characters.
Strs(n) == UNION {[1..k -> Chars] : k \in 0..n}

\* Option<T>
None == [some |-> FALSE, value |-> <<>>]

Some(v) == [some |-> TRUE, value |-> v]

\* git_version.split("-").collect(): the parts between the separators, one
\* part more than there are separators.
RECURSIVE split(_)
split(str) ==
    IF \E i \in 1..Len(str) : str[i] = "-"
    THEN LET i == CHOOSE k \in 1..Len(str) :
                     str[k] = "-" /\ \A j \in 1..(k - 1) : str[j] # "-"
         IN  <<SubSeq(str, 1, i - 1)>> \o split(SubSeq(str, i + 1, Len(str)))
    ELSE <<str>>

\* str.get(1..): the rest after the first byte, None when the str is empty
\* or byte 1 is inside its first character.
GetFrom1(str) ==
    IF Len(str) >= 1 /\ Width(str[1]) = 1 THEN Some(Tail(str)) ELSE None

\* Option::unwrap_or_default for a str.
UnwrapOrDefault(option) == IF option.some THEN option.value ELSE <<>>

\* Variant: the tag is set whatever the number of commits after it.
parse_git_version_always_tag(git_version, branch) ==
    IF Len(split(git_version)) # 3
    THEN None
    ELSE Some([tag |-> split(git_version)[1],
               branch |-> branch,
               hash |-> UnwrapOrDefault(GetFrom1(split(git_version)[3]))])

\* parse_git_version
parse_git_version(git_version, branch) ==
    IF Len(split(git_version)) # 3
    THEN None
    ELSE Some([tag |-> IF split(git_version)[2] = <<"0">> THEN split(git_version)[1] ELSE <<>>,
               branch |-> branch,
               hash |-> UnwrapOrDefault(GetFrom1(split(git_version)[3]))])

\* The branch names of the tests.
Branches == {"master", "development"}

InitVersion ==
    /\ db = [whitelist |-> <<>>, blacklist |-> <<>>, regex |-> <<>>]
    /\ last = NoCall
    /\ pc = "idle"
    /\ trip = NoTrip
    /\ conc = Unused
    /\ config = Unused
    /\ \E git_version \in Strs(MaxLen), branch \in Branches :
          version = [git_version |-> git_version, branch |-> branch,
                     phase |-> "start", result |-> None]
    /\ build = Unused

\* parse_git_version(git_version, branch) is called.
VersionParse ==
    /\ version.phase = "start"
    /\ version' = [version EXCEPT !.phase = "parsed",
                                  !.result = parse_git_version(version.git_version, version.branch)]
    /\ UNCHANGED <<db, last, pc, trip, conc, config, build>>

NextVersion == VersionParse

SpecVersion == InitVersion /\ [][NextVersion]_vars

\* The positions of the separators in a str.
Dashes(str) == {i \in 1..Len(str) : str[i] = "-"}

\* The three parts of a str with two separators.
FirstPart(str) == SubSeq(str, 1, CHOOSE i \in Dashes(str) : \A j \in Dashes(str) : i <= j)

SecondPart(str) ==
    LET i == CHOOSE k \in Dashes(str) : \A j \in Dashes(str) : k <= j
        j == CHOOSE k \in Dashes(str) : \A l \in Dashes(str) : l <= k
    IN  SubSeq(str, i + 1, j - 1)

ThirdPart(str) ==
    SubSeq(str, (CHOOSE k \in Dashes(str) : \A l \in Dashes(str) : l <= k) + 1, Len(str))

\* -------------------------------------------------------------------- C17

\* C17, as stated: parse_git_version returns a Version if and only if the
\* string has exactly three parts between separators; the tag is the first
\* part when the second is "0" and empty otherwise, the branch is the branch
\* given, and the hash is the third part without its first character.
GitVersionParsedByCharacter ==
    version.phase = "parsed"
       => /\ version.result.some <=> Cardinality(Dashes(version.git_version)) = 2
          /\ version.result.some
                => LET first == SubSeq(FirstPart(version.git_version), 1,
                                       Len(FirstPart(version.git_version)) - 1)
                       third == ThirdPart(version.git_version)
                   IN  /\ version.result.value.tag
                             = IF SecondPart(version.git_version) = <<"0">> THEN first ELSE <<>>
                       /\ version.result.value.branch = version.branch
                       /\ version.result.value.hash
                             = IF third = <<>> THEN <<>> ELSE SubSeq(third, 2, Len(third))

\* C17, amended: as above, but the hash is the third part without its first
\* byte when the third part is empty or begins with a one-byte character,
\* and the empty string when it begins with a character of several bytes.
GitVersionParsed ==
    version.phase = "parsed"
       => /\ version.result.some <=> Cardinality(Dashes(version.git_version)) = 2
          /\ version.result.some
                => LET first == SubSeq(FirstPart(version.git_version), 1,
                                       Len(FirstPart(version.git_version)) - 1)
                       third == ThirdPart(version.git_version)
                   IN  /\ version.result.value.tag
                             = IF SecondPart(version.git_version) = <<"0">> THEN first ELSE <<>>
                       /\ version.result.value.branch = version.branch
                       /\ version.result.value.hash
                             = IF third = <<>> \/ third[1] = "U+00E9"
                               THEN <<>>
                               ELSE SubSeq(third, 2, Len(third))

\* A tagged version was parsed: the tag is set and the hash is what follows g.
GitVersionParsedWitness ==
    /\ version.phase = "parsed"
    /\ version.git_version = <<"g", "-", "0", "-", "g", "0">>
    /\ version.result = Some([tag |-> <<"g">>, branch |-> version.branch, hash |-> <<"0">>])


\* ------------------------------------------------------------- build.rs

\* A string of the build script is the sequence of its pieces: words, single
\* characters, and the line feed that ends a line of git's output.
IsWhitespace(piece) == piece \in {"\n", " "}

\* str::trim
RECURSIVE trim(_)
trim(str) ==
    IF str = <<>> THEN <<>>
    ELSE IF IsWhitespace(str[1]) THEN trim(Tail(str))
    ELSE IF IsWhitespace(str[Len(str)]) THEN trim(SubSeq(str, 1, Len(str) - 1))
    ELSE str

\* What git prints for a line of text: the text and a line feed.
Line(text) == text \o <<"\n">>

\* env::var(name).unwrap_or_else(|_| otherwise)
EnvOrElse(var, otherwise) == IF var.some THEN var.value ELSE otherwise

\* hash.trim().get(0..7).unwrap_or_default(), every piece of a hash being a
\* character of one byte.
First7(str) == IF Len(str) >= 7 THEN SubSeq(str, 1, 7) ELSE <<>>

\* main: the four variables printed for cargo, from the environment and from
\* the standard output of the three git commands (empty when git fails).
main(CIRCLE_TAG, CIRCLE_BRANCH, git_describe, git_branch, git_hash) ==
    LET tag == EnvOrElse(CIRCLE_TAG, git_describe)
        branch == EnvOrElse(CIRCLE_BRANCH,
                            IF tag # <<>> /\ git_branch = <<"HEAD">>
                            THEN <<"master">>
                            ELSE git_branch)
        hash == git_hash
        ver == IF tag # <<>> THEN tag ELSE <<"vDev-">> \o First7(trim(hash))
    IN  [GIT_TAG |-> trim(tag), GIT_BRANCH |-> trim(branch),
         GIT_HASH |-> trim(hash), GIT_VERSION |-> ver]

\* The environment of a build and what git prints in its checkout.
CircleTags == {None, Some(<<>>), Some(<<"v1.0">>)}

CircleBranches == {None, Some(<<"master">>), Some(<<"development">>)}

GitDescribes == {<<>>, Line(<<"v1.0">>)}

GitBranches == {<<>>, Line(<<"HEAD">>), Line(<<"master">>), Line(<<"development">>)}

GitHashes == {<<>>, Line(<<"f", "b", "e", "e", "1", "8", "e", "0">>)}

InitBuild ==
    /\ db = [whitelist |-> <<>>, blacklist |-> <<>>, regex |-> <<>>]
    /\ last = NoCall
    /\ pc = "idle"
    /\ trip = NoTrip
    /\ conc = Unused
    /\ config = Unused
    /\ version = Unused
    /\ \E t \in CircleTags, b \in CircleBranches, gd \in GitDescribes,
          gb \in GitBranches, gh \in GitHashes :
          build = [CIRCLE_TAG |-> t, CIRCLE_BRANCH |-> b, git_describe |-> gd,
                   git_branch |-> gb, git_hash |-> gh, phase |-> "start",
                   out |-> [GIT_TAG |-> <<>>, GIT_BRANCH |-> <<>>,
                            GIT_HASH |-> <<>>, GIT_VERSION |-> <<>>]]

\* The build script runs.
BuildMain ==
    /\ build.phase = "start"
    /\ build' = [build EXCEPT !.phase = "built",
                              !.out = main(build.CIRCLE_TAG, build.CIRCLE_BRANCH,
                                           build.git_describe, build.git_branch,
                                           build.git_hash)]
    /\ UNCHANGED <<db, last, pc, trip, conc, config, version>>

NextBuild == BuildMain

SpecBuild == InitBuild /\ [][NextBuild]_vars

\* -------------------------------------------------------------------- C20

\* C20: tag builds have a branch of master: when CIRCLE_BRANCH is not set,
\* the tag is not empty and git reports the current branch as HEAD, the
\* GIT_BRANCH handed to the compiler is master; in every other case without
\* CIRCLE_BRANCH it is the branch name git reported.
TagBuildBranchMaster ==
    (build.phase = "built" /\ ~build.CIRCLE_BRANCH.some)
       => build.out.GIT_BRANCH
             = IF EnvOrElse(build.CIRCLE_TAG, build.git_describe) # <<>>
                  /\ trim(build.git_branch) = <<"HEAD">>
               THEN <<"master">>
               ELSE trim(build.git_branch)

====
